---- MODULE Spec2Model ----
(***************************************************************************)
(* Model of src/test/gibberish.py: the Florbinator (a history-keeping      *)
(* lookup over string keys), the Quazzifier (a numeric transform and a     *)
(* capped stack of (tag, value) pairs with a threshold purge) and the      *)
(* driving loop hlavni_smycka.                                             *)
(*                                                                         *)
(* Floats are modelled as integers in units of 0.001, so that the purge    *)
(* threshold 0.001 is the integer 1.  A tag is modelled by the integer n   *)
(* of its text "iter_n".                                                   *)
(***************************************************************************)
EXTENDS Integers, Sequences, FiniteSets, TLC

VARIABLES
    grommet_stack,   \* Quazzifier._grommet_stack: sequence of <<tag, value>>
    ret_len,         \* integer returned by the last call, if accumulate_grommets
    ret_removed,     \* list returned by the last call, if purge_below_splunge
    arg,             \* argument of the last completed call
    lastCall,        \* name of the last completed call
    prevCall,        \* name of the call completed before it
    nrec,            \* number of accumulate_grommets calls made so far
    snorkel_cache,   \* Florbinator._snorkel_cache: key -> list of scores
    zargle,          \* Florbinator.zargle
    pc,              \* where control is: "idle" between calls, else the step
    caller,          \* who called defrangulate: "user" or "hlavni_smycka"
    inputs,          \* defrangulate: the parameter inputs
    idx,             \* defrangulate: number of inputs already looked up
    skronk_map,      \* defrangulate: the local skronk_map
    branch,          \* defrangulate: branch the last lookup took
    ret_map,         \* the dict the last defrangulate call returned
    dweezil_mode,    \* Quazzifier.dweezil_mode
    tokens,          \* hlavni_smycka: the list blibber_tokens
    iterations,      \* hlavni_smycka: the parameter iterations
    i,               \* hlavni_smycka: the loop variable i
    val,             \* hlavni_smycka: val, <<>> for None and <<v>> for a float v
    wobbed,          \* transmogrify: the list wobulate returned last
    results          \* hlavni_smycka: the dict results

accVars == <<grommet_stack, ret_len, ret_removed, arg, lastCall, prevCall, nrec>>

aggVars == <<snorkel_cache, zargle, caller, inputs, idx, skronk_map, branch, ret_map>>

runVars == <<dweezil_mode, tokens, iterations, i, val, wobbed, results>>

vars == <<accVars, aggVars, runVars, pc>>

\* ------------------------------------------------------------ bounds
MaxRecords == 153
SmallEvery == 20
MaxInputs == 3
MaxIterations == 205
MaxPairRecords == 3
MaxPairInputs == 3

\* ------------------------------------------------------------ constants
SPLUNGE_THRESHOLD == 1
StackCap == 100
StackKeep == 50
ZargleDefault == 42
ZargleRun == 17
NumTweezles == 7
MOOP_NUM == 314159
MOOP_DEN == 100000
Underscore == 95

\* ------------------------------------------------------------ helpers
Range(s) == {s[j] : j \in DOMAIN s}

\* s[-n:] of Python: the last n elements (all of s when it has fewer).
LastN(s, n) == IF Len(s) <= n THEN s ELSE SubSeq(s, Len(s) - n + 1, Len(s))

\* ------------------------------------------------------------ Florbinator
\* The empty dict.
EmptyMap == [k \in {} |-> 0]

\* d with d[k] = v set.
MapSet(d, k, v) == [x \in DOMAIN d \cup {k} |-> IF x = k THEN v ELSE d[x]]

\* sum(s) of a list of integers.
RECURSIVE SumSeq(_)
SumSeq(s) == IF s = <<>> THEN 0 ELSE Head(s) + SumSeq(Tail(s))

\* Variant: the score is computed from a 1-based position.
fresh_score_one_based(blorp, position, base) == Len(blorp) * (position + 1) + base

\* len(blorp) * idx + self.zargle
fresh_score(blorp, position, base) == Len(blorp) * position + base

\* Variant: a known key is scored afresh instead of from its history.
lookup_score_recompute(cache, blorp, position, base) ==
    fresh_score(blorp, position, base)

\* skronk_map[blorp] of one pass of the loop of defrangulate.
lookup_score(cache, blorp, position, base) ==
    IF blorp \in DOMAIN cache
    THEN SumSeq(cache[blorp])
    ELSE fresh_score(blorp, position, base)

\* Variant: a miss starts a new dict that holds the new key alone.
lookup_cache_fresh(cache, blorp, position, base) ==
    IF blorp \in DOMAIN cache
    THEN cache
    ELSE MapSet(EmptyMap, blorp, <<fresh_score(blorp, position, base)>>)

\* Variant: a hit appends the sum it returns to the key's history.
lookup_cache_appending(cache, blorp, position, base) ==
    IF blorp \in DOMAIN cache
    THEN MapSet(cache, blorp, Append(cache[blorp], SumSeq(cache[blorp])))
    ELSE MapSet(cache, blorp, Append(<<>>, fresh_score(blorp, position, base)))

\* Variant: the keys share one list, so a miss appends its score to the
\* history of every key.
lookup_cache_shared(cache, blorp, position, base) ==
    IF blorp \in DOMAIN cache
    THEN cache
    ELSE [x \in DOMAIN cache \cup {blorp} |->
            IF x \in DOMAIN cache
            THEN Append(cache[x], fresh_score(blorp, position, base))
            ELSE <<fresh_score(blorp, position, base)>>]

\* self._snorkel_cache after one pass of the loop of defrangulate: a miss
\* creates the key's list (defaultdict) and appends the score to it.
lookup_cache(cache, blorp, position, base) ==
    IF blorp \in DOMAIN cache
    THEN cache
    ELSE MapSet(cache, blorp, Append(<<>>, fresh_score(blorp, position, base)))

Keys == {"", "sub", "zilch_poppet", "mega_tronkle"}

InputLists == UNION {[1 .. n -> Keys] : n \in 0 .. MaxInputs}

FlorbinatorInit(z) ==
    /\ zargle = z
    /\ snorkel_cache = EmptyMap
    /\ caller = "user"
    /\ inputs = <<>>
    /\ idx = 0
    /\ skronk_map = EmptyMap
    /\ branch = "none"
    /\ ret_map = EmptyMap

\* defrangulate is entered with the list given.
EnterDefrangulate(list, by) ==
    /\ inputs' = list
    /\ idx' = 0
    /\ skronk_map' = EmptyMap
    /\ branch' = "none"
    /\ caller' = by
    /\ pc' = "defrangulate"
    /\ UNCHANGED <<snorkel_cache, zargle, ret_map>>

\* A caller calls defrangulate(inputs).
DefrangulateCall ==
    /\ pc = "idle"
    /\ \E list \in InputLists : EnterDefrangulate(list, "user")
    /\ UNCHANGED <<accVars, runVars>>

\* One pass of the loop of defrangulate, for inputs[idx] (0-based).
DefrangulateStep ==
    /\ pc = "defrangulate"
    /\ idx < Len(inputs)
    /\ LET blorp == inputs[idx + 1] IN
        /\ skronk_map' = MapSet(skronk_map, blorp,
                                lookup_score(snorkel_cache, blorp, idx, zargle))
        /\ snorkel_cache' = lookup_cache(snorkel_cache, blorp, idx, zargle)
        /\ branch' = IF blorp \in DOMAIN snorkel_cache THEN "hit" ELSE "miss"
    /\ idx' = idx + 1
    /\ UNCHANGED <<zargle, caller, inputs, ret_map, pc, accVars, runVars>>

\* The loop is over: defrangulate returns skronk_map.
DefrangulateReturn ==
    /\ pc = "defrangulate"
    /\ idx = Len(inputs)
    /\ ret_map' = skronk_map
    /\ inputs' = <<>>
    /\ idx' = 0
    /\ skronk_map' = EmptyMap
    /\ branch' = "none"
    /\ pc' = IF caller = "hlavni_smycka" THEN "total" ELSE "idle"
    /\ UNCHANGED <<snorkel_cache, zargle, caller, accVars, runVars>>

\* ------------------------------------------------------------ wobulate, transmogrify
\* The characters of the strings used, as the codes ord gives.
Ord(str) ==
    CASE str = "frobnostic_wanger" ->
            <<102, 114, 111, 98, 110, 111, 115, 116, 105, 99, 95, 119, 97, 110, 103, 101, 114>>
      [] str = "zilch_poppet" ->
            <<122, 105, 108, 99, 104, 95, 112, 111, 112, 112, 101, 116>>
      [] str = "mega_tronkle" ->
            <<109, 101, 103, 97, 95, 116, 114, 111, 110, 107, 108, 101>>
      [] str = "sub_plankton" ->
            <<115, 117, 98, 95, 112, 108, 97, 110, 107, 116, 111, 110>>
      [] str = "ultra_snib" ->
            <<117, 108, 116, 114, 97, 95, 115, 110, 105, 98>>
      [] str = "quasi_blorpitude" ->
            <<113, 117, 97, 115, 105, 95, 98, 108, 111, 114, 112, 105, 116, 117, 100, 101>>
      [] str = "sub" -> <<115, 117, 98>>
      [] str = "" -> <<>>

\* chars.split("_"), given the chunk `cur` begun so far.
RECURSIVE SplitFrom(_, _)
SplitFrom(chars, cur) ==
    IF chars = <<>> THEN <<cur>>
    ELSE IF Head(chars) = Underscore
         THEN <<cur>> \o SplitFrom(Tail(chars), <<>>)
         ELSE SplitFrom(Tail(chars), Append(cur, Head(chars)))

Split(chars) == SplitFrom(chars, <<>>)

\* sum(ord(c) for chunk in chunks for c in chunk)
RECURSIVE gronkitude(_)
gronkitude(chunks) ==
    IF chunks = <<>> THEN 0 ELSE SumSeq(Head(chunks)) + gronkitude(Tail(chunks))

\* The largest r in lo..hi with r * r <= n.
RECURSIVE SqrtBetween(_, _, _)
SqrtBetween(n, lo, hi) ==
    IF lo = hi THEN lo
    ELSE LET mid == (lo + hi + 1) \div 2
         IN  IF mid * mid <= n THEN SqrtBetween(n, mid, hi)
             ELSE SqrtBetween(n, lo, mid - 1)

\* x ** 0.5 for x in units of 0.001: the root, rounded down to 0.01, in units
\* of 0.001.
Sqrt(x) == 10 * SqrtBetween(10 * x, 0, 46340)

\* self._blemfark, set in __init__ and never assigned again.
blemfark == TRUE

\* wobulate(grix): the list of the num_tweezles values, grix and the values
\* in units of 0.001.
wobulate(grix, z) ==
    [j \in 1 .. NumTweezles |->
        LET splanch == (grix * z) \div j
        IN  IF blemfark THEN Sqrt(splanch) ELSE splanch]

SeqMax(s) == CHOOSE x \in Range(s) : \A y \in Range(s) : y <= x
SeqMin(s) == CHOOSE x \in Range(s) : \A y \in Range(s) : x <= y

\* The list wobulate returns inside transmogrify(raw_klunge).
transmogrify_wobbed(raw_klunge, z) ==
    LET chunks == Split(Ord(raw_klunge))
    IN  wobulate((gronkitude(chunks) * 1000) \div Len(chunks), z)

\* Variant: the empty string is transformed like any other.
transmogrify_unguarded(raw_klunge, z, dweezil) ==
    LET chunks == Split(Ord(raw_klunge))
        w == wobulate((gronkitude(chunks) * 1000) \div Len(chunks), z)
    IN  IF dweezil
        THEN <<((SeqMax(w) \div 100) * MOOP_NUM) \div 1000>>
        ELSE <<(((SeqMin(w) \div 100) * MOOP_DEN) \div MOOP_NUM) * 100>>

\* transmogrify(raw_klunge): <<>> for None, else <<v>> with v in units of
\* 0.001.  The extreme of wobbed is rounded down to 0.1 before it is scaled
\* by MOOP_CONSTANT = MOOP_NUM / MOOP_DEN.
transmogrify(raw_klunge, z, dweezil) ==
    IF raw_klunge = "" THEN <<>>
    ELSE LET w == transmogrify_wobbed(raw_klunge, z)
         IN  IF dweezil
             THEN <<((SeqMax(w) \div 100) * MOOP_NUM) \div 1000>>
             ELSE <<(((SeqMin(w) \div 100) * MOOP_DEN) \div MOOP_NUM) * 100>>

\* ------------------------------------------------------------ Quazzifier
\* Variant: the cap is tested one entry late.
accumulate_grommets_late(stack, tag, value) ==
    LET appended == Append(stack, <<tag, value>>)
    IN  IF Len(appended) > StackCap + 1 THEN LastN(appended, StackKeep) ELSE appended

\* Variant: on overflow only the oldest entry is dropped (a sliding trim).
accumulate_grommets_slide(stack, tag, value) ==
    LET appended == Append(stack, <<tag, value>>)
    IN  IF Len(appended) > StackCap THEN Tail(appended) ELSE appended

\* Variant: on overflow the oldest 50 entries are dropped.
accumulate_grommets_drop50(stack, tag, value) ==
    LET appended == Append(stack, <<tag, value>>)
    IN  IF Len(appended) > StackCap
        THEN SubSeq(appended, StackKeep + 1, Len(appended))
        ELSE appended

\* The stack after accumulate_grommets(tag, value).
accumulate_grommets(stack, tag, value) ==
    LET appended == Append(stack, <<tag, value>>)
    IN  IF Len(appended) > StackCap THEN LastN(appended, StackKeep) ELSE appended

\* Variant: the length is taken before the truncation.
accumulate_return_early(stack, tag, value) == Len(stack) + 1

\* The integer accumulate_grommets(tag, value) returns.
accumulate_return(stack, tag, value) == Len(accumulate_grommets(stack, tag, value))

\* Variant: the removed entries are selected with <= instead of <.
purge_removed_inclusive(stack) ==
    LET Below(e) == e[2] <= SPLUNGE_THRESHOLD IN SelectSeq(stack, Below)

\* The list `removed` of purge_below_splunge.
purge_removed(stack) ==
    LET Below(e) == e[2] < SPLUNGE_THRESHOLD IN SelectSeq(stack, Below)

\* Variant: the stack is not reassigned.
purge_retained_forgotten(stack) == stack

\* The stack that purge_below_splunge leaves.
purge_retained(stack) ==
    LET AtLeast(e) == e[2] >= SPLUNGE_THRESHOLD IN SelectSeq(stack, AtLeast)

Values == 0 .. (SPLUNGE_THRESHOLD + 1)

QuazzifierInit ==
    /\ grommet_stack = <<>>
    /\ ret_len = 0
    /\ ret_removed = <<>>
    /\ arg = <<>>
    /\ lastCall = "init"
    /\ prevCall = "init"
    /\ nrec = 0

\* A call accumulate_grommets(tag, value).
DoAccumulate(tag, value) ==
    /\ grommet_stack' = accumulate_grommets(grommet_stack, tag, value)
    /\ ret_len' = accumulate_return(grommet_stack, tag, value)
    /\ ret_removed' = <<>>
    /\ arg' = <<tag, value>>
    /\ nrec' = nrec + 1
    /\ prevCall' = lastCall
    /\ lastCall' = "accumulate_grommets"

\* A call purge_below_splunge().
DoPurge ==
    /\ ret_removed' = purge_removed(grommet_stack)
    /\ grommet_stack' = purge_retained(grommet_stack)
    /\ ret_len' = 0
    /\ arg' = <<>>
    /\ prevCall' = lastCall
    /\ lastCall' = "purge_below_splunge"
    /\ UNCHANGED nrec

\* A caller records (tag, value); the tag is the ordinal of the call.  Every
\* SmallEvery-th call may record any value, the others record a value above
\* the threshold.
AccumulateGrommets ==
    /\ pc = "idle"
    /\ nrec < MaxRecords
    /\ \E value \in Values :
        /\ (value <= SPLUNGE_THRESHOLD) => (nrec + 1) % SmallEvery = 0
        /\ DoAccumulate(nrec + 1, value)
    /\ UNCHANGED <<aggVars, runVars, pc>>

PurgeBelowSplunge ==
    /\ pc = "idle"
    /\ DoPurge
    /\ UNCHANGED <<aggVars, runVars, pc>>

\* ------------------------------------------------------------ hlavni_smycka
blibber_tokens ==
    <<"frobnostic_wanger", "zilch_poppet", "mega_tronkle",
      "sub_plankton", "ultra_snib", "quasi_blorpitude">>

TotalKey == "total_defrangulation"

\* Variant: the rotation starts one token late.
token_at_shifted(n) == tokens[((n + 1) % Len(tokens)) + 1]

\* blibber_tokens[i % len(blibber_tokens)]
token_at(n) == tokens[(n % Len(tokens)) + 1]

\* sum(d.values())
RECURSIVE SumValues(_)
SumValues(m) ==
    IF DOMAIN m = {} THEN 0
    ELSE LET k == CHOOSE x \in DOMAIN m : TRUE
         IN  m[k] + SumValues([x \in DOMAIN m \ {k} |-> m[x]])

\* No call of hlavni_smycka is under way.
RunIdle ==
    /\ dweezil_mode = FALSE
    /\ tokens = <<>>
    /\ iterations = 0
    /\ i = 0
    /\ val = <<>>
    /\ wobbed = <<>>
    /\ results = EmptyMap

\* hlavni_smycka(iterations) has built florb, quazz and results, with the
\* token list given.
SetUpRun(list) ==
    /\ FlorbinatorInit(ZargleRun)
    /\ QuazzifierInit
    /\ dweezil_mode = TRUE
    /\ tokens = list
    /\ iterations \in 0 .. MaxIterations
    /\ i = 0
    /\ val = <<>>
    /\ wobbed = <<>>
    /\ results = EmptyMap
    /\ pc = "loop"

InitRun == SetUpRun(blibber_tokens)

\* The token lists that differ from blibber_tokens in one token, which is
\* the empty string.
BlankedTokenLists ==
    {[j \in DOMAIN blibber_tokens |-> IF j = b THEN "" ELSE blibber_tokens[j]] :
        b \in DOMAIN blibber_tokens}

\* hlavni_smycka as it would run were one of its tokens the empty string.
InitRunBlank == \E list \in BlankedTokenLists : SetUpRun(list)

\* Variant: the transform scores its token into the history mapping, once
\* for each of the positions 1 .. num_tweezles.
LoopTransmogrifyScoring ==
    /\ pc = "loop"
    /\ i < iterations
    /\ val' = transmogrify(token_at(i), zargle, dweezil_mode)
    /\ wobbed' = IF token_at(i) = "" THEN <<>>
                 ELSE transmogrify_wobbed(token_at(i), zargle)
    /\ snorkel_cache' = IF token_at(i) = "" THEN snorkel_cache
                        ELSE lookup_cache(snorkel_cache, token_at(i), 1, zargle)
    /\ pc' = "record"
    /\ UNCHANGED <<accVars, zargle, caller, inputs, idx, skronk_map, branch,
                   ret_map, dweezil_mode, tokens, iterations, i, results>>

\* The loop takes its next token and calls quazz.transmogrify(token).
LoopTransmogrify ==
    /\ pc = "loop"
    /\ i < iterations
    /\ val' = transmogrify(token_at(i), zargle, dweezil_mode)
    /\ wobbed' = IF token_at(i) = "" THEN <<>>
                 ELSE transmogrify_wobbed(token_at(i), zargle)
    /\ pc' = "record"
    /\ UNCHANGED <<accVars, aggVars, dweezil_mode, tokens, iterations, i, results>>

\* The rest of the loop body: a val that is not None is recorded under the
\* tag iter_i and stored in results under the token.
LoopRecord ==
    /\ pc = "record"
    /\ IF val # <<>>
       THEN /\ DoAccumulate(i, val[1])
            /\ results' = MapSet(results, token_at(i), val[1])
       ELSE UNCHANGED <<accVars, results>>
    /\ i' = i + 1
    /\ pc' = "loop"
    /\ UNCHANGED <<aggVars, dweezil_mode, tokens, iterations, val, wobbed>>

\* range(iterations) is exhausted.
LoopExit ==
    /\ pc = "loop"
    /\ i >= iterations
    /\ pc' = "purge"
    /\ UNCHANGED <<accVars, aggVars, runVars>>

\* quazz.purge_below_splunge(), its result dropped.
RunPurge ==
    /\ pc = "purge"
    /\ DoPurge
    /\ pc' = "call_defrangulate"
    /\ UNCHANGED <<aggVars, runVars>>

\* Variant: defrangulate is given the tokens the loop has met.
RunDefrangulateEncountered ==
    /\ pc = "call_defrangulate"
    /\ EnterDefrangulate(SubSeq(tokens, 1, IF i < Len(tokens) THEN i ELSE Len(tokens)),
                         "hlavni_smycka")
    /\ UNCHANGED <<accVars, runVars>>

\* florb.defrangulate(blibber_tokens) is called.
RunDefrangulate ==
    /\ pc = "call_defrangulate"
    /\ EnterDefrangulate(tokens, "hlavni_smycka")
    /\ UNCHANGED <<accVars, runVars>>

\* results["total_defrangulation"] = sum(defranged.values()); return results.
RunTotal ==
    /\ pc = "total"
    /\ results' = MapSet(results, TotalKey, SumValues(ret_map))
    /\ pc' = "done"
    /\ UNCHANGED <<accVars, aggVars, dweezil_mode, tokens, iterations, i, val, wobbed>>

\* ------------------------------------------------------------ specifications
\* A Quazzifier whose accumulate_grommets and purge_below_splunge are called
\* in any order.
InitAcc ==
    /\ QuazzifierInit
    /\ FlorbinatorInit(ZargleDefault)
    /\ RunIdle
    /\ pc = "idle"

NextAcc == AccumulateGrommets \/ PurgeBelowSplunge

SpecAcc == InitAcc /\ [][NextAcc]_vars

\* A Florbinator whose defrangulate is called again and again.
InitAgg ==
    /\ QuazzifierInit
    /\ \E z \in {ZargleDefault, ZargleRun} : FlorbinatorInit(z)
    /\ RunIdle
    /\ pc = "idle"

NextAgg == DefrangulateCall \/ DefrangulateStep \/ DefrangulateReturn

SpecAgg == InitAgg /\ [][NextAgg]_vars

\* One call of hlavni_smycka(iterations), from its first line to its return.
NextRun ==
    \/ LoopTransmogrify
    \/ LoopRecord
    \/ LoopExit
    \/ RunPurge
    \/ RunDefrangulate
    \/ DefrangulateStep
    \/ DefrangulateReturn
    \/ RunTotal

SpecRun == InitRun /\ [][NextRun]_vars

SpecRunBlank == InitRunBlank /\ [][NextRun]_vars

\* A Quazzifier and its Florbinator, whose accumulate_grommets,
\* purge_below_splunge and defrangulate are called in any order, a few times
\* and with short lists.
PairKeys == {"sub", "zilch_poppet"}

PairLists == UNION {[1 .. n -> PairKeys] : n \in 0 .. MaxPairInputs}

PairRecord ==
    /\ pc = "idle"
    /\ nrec < MaxPairRecords
    /\ \E value \in Values : DoAccumulate(nrec + 1, value)
    /\ UNCHANGED <<aggVars, runVars, pc>>

PairDefrangulateCall ==
    /\ pc = "idle"
    /\ \E list \in PairLists : EnterDefrangulate(list, "user")
    /\ UNCHANGED <<accVars, runVars>>

NextPair ==
    \/ PairRecord
    \/ PurgeBelowSplunge
    \/ PairDefrangulateCall
    \/ DefrangulateStep
    \/ DefrangulateReturn

SpecPair == InitAcc /\ [][NextPair]_vars

\* ------------------------------------------------------------ Quazzifier: properties
\* The tags of s strictly increase: s lists its entries in the order recorded.
InRecordedOrder(s) == \A j \in 1 .. (Len(s) - 1) : s[j][1] < s[j + 1][1]

\* C1: after any completed accumulate_grommets or purge_below_splunge call,
\* in any interleaving from the empty stack, the stack holds at most 100 entries.
C1_LengthAtMost100 == Len(grommet_stack) <= 100

\* The stack is full again after an earlier truncation.
C1_Witness ==
    /\ lastCall = "accumulate_grommets"
    /\ nrec > 150
    /\ Len(grommet_stack) = 100

\* C2: 101 records in a row into the empty stack leave exactly the entries
\* 52..101 in order, and whenever a record pushes the length above 100 the
\* stack afterwards is the last 50 entries of the appended sequence: the
\* entries 52..100 of the old stack followed by the entry just recorded.
C2_TruncateToLast50 ==
    [][(lastCall' = "accumulate_grommets" /\ Len(grommet_stack) + 1 > 100) =>
          /\ grommet_stack' = SubSeq(grommet_stack, 52, 100) \o <<arg'>>
          /\ Len(grommet_stack') = 50
          /\ (nrec = 100 =>
                \A j \in 1 .. 50 : grommet_stack'[j][1] = 51 + j)]_vars

\* The 101st record in a row has just truncated the stack.
C2_Witness ==
    /\ lastCall = "accumulate_grommets"
    /\ nrec = 101
    /\ Len(grommet_stack) = 50
    /\ grommet_stack[1][1] = 52
    /\ grommet_stack[50][1] = 101

\* C3: accumulate_grommets returns the length of the stack after the call
\* (old length + 1 below the cap, 50 when the old length was 100), and the
\* recorded pair is the last element of the stack.
C3_ReturnsNewLength ==
    [][lastCall' = "accumulate_grommets" =>
          /\ ret_len' = Len(grommet_stack')
          /\ ret_len' = (IF Len(grommet_stack) < 100 THEN Len(grommet_stack) + 1 ELSE 50)
          /\ grommet_stack'[Len(grommet_stack')] = arg']_vars

\* A truncating record made after an earlier purge has removed an entry.
C3_Witness ==
    /\ lastCall = "accumulate_grommets"
    /\ ret_len = 50
    /\ nrec > 101
    /\ grommet_stack[50] = arg

C5_SecondPurgeEmpty ==
    [][(lastCall = "purge_below_splunge" /\ lastCall' = "purge_below_splunge") =>
          /\ ret_removed' = <<>>
          /\ grommet_stack' = grommet_stack]_vars

\* Two purges in a row, the first of which removed an entry.
C5_Witness ==
    /\ prevCall = "purge_below_splunge"
    /\ lastCall = "purge_below_splunge"
    /\ ret_removed = <<>>
    /\ Len(grommet_stack) > 0
    /\ Len(grommet_stack) < nrec
    /\ nrec < 100

\* ------------------------------------------------------------ Florbinator: properties
\* s is a prefix of t.
IsPrefix(s, t) == Len(s) <= Len(t) /\ SubSeq(t, 1, Len(s)) = s

\* The step taken is one pass of the loop of defrangulate.
LookupStep == pc = "defrangulate" /\ idx' = idx + 1

\* C6: the first lookup of a key k (k has no history) returns
\* len(k) * position + base, where the position is k's 0-based index in the
\* list given to defrangulate and the base is zargle; right afterwards the
\* sum of k's history is that value.
C6_FirstLookupComputes ==
    [][(LookupStep /\ inputs[idx + 1] \notin DOMAIN snorkel_cache) =>
          LET k == inputs[idx + 1] IN
          /\ skronk_map'[k] = Len(k) * idx + zargle
          /\ k \in DOMAIN snorkel_cache'
          /\ SumSeq(snorkel_cache'[k]) = skronk_map'[k]]_vars

\* A first lookup at a position above 0 of a key that is not empty.
C6_Witness ==
    /\ pc = "defrangulate"
    /\ branch = "miss"
    /\ idx >= 2
    /\ Len(inputs[idx]) > 0
    /\ skronk_map[inputs[idx]] = Len(inputs[idx]) * (idx - 1) + zargle

Positions == 0 .. MaxInputs

\* C7: a lookup of a key k that has history returns the sum of the history
\* k had before the lookup, whatever the position and the base are.
C7_RepeatLookupSumsHistory ==
    [][(LookupStep /\ inputs[idx + 1] \in DOMAIN snorkel_cache) =>
          LET k == inputs[idx + 1] IN
          /\ skronk_map'[k] = SumSeq(snorkel_cache[k])
          /\ \A p \in Positions, z \in {ZargleDefault, ZargleRun} :
                lookup_score(snorkel_cache, k, p, z) = skronk_map'[k]]_vars

\* A key is looked up a second time in the same list, at a position where a
\* first lookup would have given another value.
C7_Witness ==
    /\ pc = "defrangulate"
    /\ branch = "hit"
    /\ idx >= 2
    /\ inputs[idx] = inputs[1]
    /\ skronk_map[inputs[idx]] # Len(inputs[idx]) * (idx - 1) + zargle

\* C8: the history mapping only grows by appending: a step never removes a
\* key and leaves the old history of every key as a prefix of its new one.
C8_HistoryAppendOnly ==
    [][\A k \in DOMAIN snorkel_cache :
          /\ k \in DOMAIN snorkel_cache'
          /\ IsPrefix(snorkel_cache[k], snorkel_cache'[k])]_vars

\* A first lookup has just added a key to a mapping that held two others.
C8_Witness ==
    /\ pc = "defrangulate"
    /\ branch = "miss"
    /\ Cardinality(DOMAIN snorkel_cache) >= 3
    /\ Cardinality(DOMAIN skronk_map) = 1

\* ------------------------------------------------------------ hlavni_smycka: properties
Min(a, b) == IF a <= b THEN a ELSE b

\* The first n tokens of the rotation.
FirstTokens(n) == {blibber_tokens[j] : j \in 1 .. n}

\* C9, as the specification states it: the mapping hlavni_smycka(n) returns
\* has as its keys the first min(n, 6) tokens of the rotation and "total".
C9_KeysWithTotal ==
    pc = "done" =>
        DOMAIN results = FirstTokens(Min(iterations, 6)) \cup {"total"}

\* C9, amended: the mapping hlavni_smycka(n) returns has as its keys the
\* first min(n, 6) tokens of the rotation and "total_defrangulation": 7 keys
\* for n = 6, the key "total_defrangulation" alone for n = 0.
C9_KeysWithTotalDefrangulation ==
    pc = "done" =>
        /\ DOMAIN results =
              FirstTokens(Min(iterations, 6)) \cup {"total_defrangulation"}
        /\ "total" \notin DOMAIN results
        /\ (iterations = 6 => Cardinality(DOMAIN results) = 7)
        /\ (iterations = 0 => Cardinality(DOMAIN results) = 1)

\* hlavni_smycka(6) has returned.
C9_Witness ==
    /\ pc = "done"
    /\ iterations = 6
    /\ Cardinality(DOMAIN results) = 7

\* C10, as the specification states it: the transforms of the loop score
\* into the history mapping, so that after a loop of at least one iteration
\* the mapping holds history before the final pass over the tokens starts.
C10_LoopMutatesHistory ==
    (pc = "purge" /\ i > 0) => DOMAIN snorkel_cache # {}

\* C10, amended: each transform of a non-empty token has wobulate compute 7
\* values, from the divisors 1..7, and neither reads nor writes the history
\* mapping: the mapping is empty throughout the loop and until the final
\* pass over the tokens starts.
C10_LoopLeavesHistoryEmpty ==
    /\ (pc \in {"loop", "record", "purge", "call_defrangulate"}) =>
          DOMAIN snorkel_cache = {}
    /\ (pc = "record" /\ val # <<>>) =>
          LET chunks == Split(Ord(token_at(i)))
              grix == (gronkitude(chunks) * 1000) \div Len(chunks)
          IN  /\ Len(wobbed) = 7
              /\ \A j \in 1 .. 7 : wobbed[j] = Sqrt((grix * zargle) \div j)

\* The loop has transformed every token at least once and is over.
C10_Witness ==
    /\ pc = "purge"
    /\ i >= 6
    /\ Len(wobbed) = 7
    /\ DOMAIN snorkel_cache = {}

\* C11: the transform of the empty string yields None, and the loop then
\* skips the iteration: nothing is recorded, no entry is written to results
\* for the token, the history mapping stays as it is, and the loop goes on
\* with the next iteration.
C11_EmptyTokenSkipped ==
    [][/\ (pc = "loop" /\ pc' = "record" /\ token_at(i) = "") =>
              /\ val' = <<>>
              /\ UNCHANGED <<grommet_stack, nrec, results, snorkel_cache, i>>
       /\ (pc = "record" /\ token_at(i) = "") =>
              /\ UNCHANGED <<grommet_stack, nrec, results, snorkel_cache>>
              /\ "" \notin DOMAIN results'
              /\ i' = i + 1
              /\ pc' = "loop"]_vars

\* The loop has skipped an empty token and has since gone round again: of
\* its i iterations, fewer than i have recorded.
C11_Witness ==
    /\ pc = "loop"
    /\ i >= 7
    /\ nrec < i
    /\ nrec > 0
    /\ "" \notin DOMAIN results
    /\ Cardinality(DOMAIN results) = 5

\* ------------------------------------------------------------ both components: properties
\* C12: the two components own their state apart: accumulate_grommets and
\* purge_below_splunge leave the history mapping as it is, every step of
\* defrangulate leaves the stack as it is, and a lookup of a key k leaves
\* the history of every other key as it is.
C12_DisjointOwnership ==
    [][/\ (pc = "idle" /\ pc' = "idle") => snorkel_cache' = snorkel_cache
       /\ (pc = "defrangulate" \/ pc' = "defrangulate") =>
              grommet_stack' = grommet_stack
       /\ LookupStep =>
              /\ DOMAIN snorkel_cache' \ {inputs[idx + 1]} =
                    DOMAIN snorkel_cache \ {inputs[idx + 1]}
              /\ \A k \in DOMAIN snorkel_cache \ {inputs[idx + 1]} :
                    snorkel_cache'[k] = snorkel_cache[k]]_vars

\* A first lookup of a second key, made while the stack holds an entry that
\* a purge has left and the mapping holds the history of the first key.
C12_Witness ==
    /\ pc = "defrangulate"
    /\ branch = "miss"
    /\ Cardinality(DOMAIN snorkel_cache) = 2
    /\ lastCall = "purge_below_splunge"
    /\ Len(ret_removed) >= 1
    /\ Len(grommet_stack) >= 1

\* ------------------------------------------------------------ Florbinator: history
\* C13: a key is in the history mapping exactly when it has been looked up:
\* the mapping starts empty, a lookup adds its key and no other, and no
\* other step changes the mapping.  The history of every key in it has one
\* element, since a hit reads and does not append, so that a repeat lookup
\* returns the value the first lookup computed.
C13_OneElementHistories ==
    [][/\ \A k \in DOMAIN snorkel_cache : Len(snorkel_cache[k]) = 1
       /\ \A k \in DOMAIN snorkel_cache' : Len(snorkel_cache'[k]) = 1
       /\ LookupStep =>
              DOMAIN snorkel_cache' = DOMAIN snorkel_cache \cup {inputs[idx + 1]}
       /\ ~LookupStep => snorkel_cache' = snorkel_cache
       /\ (LookupStep /\ inputs[idx + 1] \in DOMAIN snorkel_cache) =>
              /\ snorkel_cache' = snorkel_cache
              /\ skronk_map'[inputs[idx + 1]] = snorkel_cache[inputs[idx + 1]][1]]_vars

\* After an earlier call has returned, a key is looked up for the third
\* time in one list, and its history still has one element.
C13_Witness ==
    /\ pc = "defrangulate"
    /\ branch = "hit"
    /\ idx = 3
    /\ inputs[1] = inputs[2]
    /\ inputs[2] = inputs[3]
    /\ Len(snorkel_cache[inputs[3]]) = 1
    /\ skronk_map[inputs[3]] = snorkel_cache[inputs[3]][1]
    /\ ret_map # EmptyMap

\* ------------------------------------------------------------ hlavni_smycka: the stack
\* The length of the stack after n records in a row and no purge.
StackLengthAfter(n) == IF n <= 100 THEN n ELSE 50 + ((n - 101) % 51)

\* C14: after n records in a row into the empty stack, as the loop makes
\* them (iteration i records the tag iter_i), the stack is the most recent
\* L(n) entries recorded (each the tag with the value of its token), in
\* order, where L(n) = n up to 100 and
\* 50 + ((n - 101) mod 51) from 101 on; after the first truncation the
\* length stays within 50..100.
C14_MostRecentEntries ==
    (pc \in {"loop", "record", "purge"}) =>
        LET n == nrec
            L == StackLengthAfter(n)
        IN  /\ Len(grommet_stack) = L
            /\ \A j \in 1 .. L :
                  /\ grommet_stack[j][1] = n - L + j - 1
                  /\ grommet_stack[j][2] = results[token_at(n - L + j - 1)]
            /\ (n >= 101 => (50 <= Len(grommet_stack) /\ Len(grommet_stack) <= 100))

\* The 152nd record has truncated the stack for the second time.
C14_Witness ==
    /\ pc = "loop"
    /\ nrec = 152
    /\ Len(grommet_stack) = 50
    /\ grommet_stack[1][1] = 102
    /\ grommet_stack[50][1] = 151

\* ------------------------------------------------------------ hlavni_smycka: the total
\* The sum of len(token) * index + 17 over the first n tokens, index from 0.
RECURSIVE TokenScoreSum(_)
TokenScoreSum(n) ==
    IF n = 0 THEN 0
    ELSE Len(blibber_tokens[n]) * (n - 1) + 17 + TokenScoreSum(n - 1)

\* C15: whatever the number of iterations, the history mapping is empty when
\* the final pass over the tokens starts, and the total the run returns is
\* the sum of len(token) * index + 17 over the six tokens, which is 294.
C15_TotalIndependentOfLoop ==
    /\ (pc = "defrangulate" /\ idx = 0) => DOMAIN snorkel_cache = {}
    /\ pc = "done" =>
          /\ results[TotalKey] = TokenScoreSum(6)
          /\ results[TotalKey] = 294
          /\ DOMAIN snorkel_cache = Range(blibber_tokens)

\* hlavni_smycka(0) has returned the total 294.
C15_Witness ==
    /\ pc = "done"
    /\ iterations = 0
    /\ results[TotalKey] = 294

====
